---- MODULE Spec2Model ----
(***************************************************************************)
(* Model of src/app.py: a FastAPI proxy in front of the Microsoft Graph    *)
(* drive API.  The state is the remote drive (a tree of drive items) and   *)
(* one request in progress: its handler position, the recursion stack of   *)
(* fetch_all_items, the listing built so far, the log of the remote calls  *)
(* issued and the HTTP response.                                           *)
(*                                                                         *)
(* Strings are sequences of one-character strings, so that lstrip("/"),    *)
(* the f-string joins and the URL handling act on characters.              *)
(***************************************************************************)
EXTENDS Integers, Sequences, FiniteSets, TLC

\* ---------------------------------------------------------------- bounds
\* Largest number of items in the remote drive.
MaxNodes == 3
\* Page size of the remote children endpoint (Graph pages at 200).
PageSize == 1
\* Largest number of hits the remote search returns.
MaxHits == 1

\* ------------------------------------------------------------- constants
\* 1024 * 1024, the divisor of size_mb.
MiB == 1048576

Slash == "/"
Hash == "#"

\* Item names of the remote drive: no name holds a slash; "#" is a legal
\* character of a SharePoint / OneDrive item name.
Names == { <<"a">>, <<"a", "#", "b">> }
\* The facets of a drive item: "other" has neither a folder nor a file facet
\* (a package such as a OneNote notebook).
Kinds == {"folder", "file", "other"}
\* Remote sizes in bytes: 0 and 5242 both round to 0.00 MB, 131072 is 0.125 MB.
Sizes == {0, 5242, 131072}
\* Statuses of a failing remote call (besides the 404 of a missing path).
ErrStatuses == {401, 503}
\* Values of @microsoft.graph.downloadUrl; NoUrl: the key is absent.
NoUrl == "none"
Urls == {"u1", "u2"}
\* Content behind a download URL.
Payloads == {"json", "badjson", "notutf8"}
\* No item: a path that resolves to nothing.
NotFound == -1
RootId == 0

\* ---------------------------------------------------------------- strings
\* str.lstrip("/")
RECURSIVE LStrip(_)
LStrip(s) ==
    IF s # <<>> /\ Head(s) = Slash THEN LStrip(Tail(s)) ELSE s

\* The longest prefix of s that holds no c.
RECURSIVE UpTo(_, _)
UpTo(s, c) ==
    IF s = <<>> \/ Head(s) = c THEN <<>> ELSE <<Head(s)>> \o UpTo(Tail(s), c)

\* s split at every slash, empty segments kept.
RECURSIVE Split(_)
Split(s) ==
    LET seg == UpTo(s, Slash)
    IN  IF Len(seg) = Len(s) THEN <<seg>>
        ELSE <<seg>> \o Split(SubSeq(s, Len(seg) + 2, Len(s)))

\* ----------------------------------------------------------- remote drive
\* A drive is a sequence of items; the item with id i is t[i], its parent is
\* the root (0) or a folder with a smaller id.  Children are returned by the
\* remote API in id order, which is unrelated to their names.
NodeRecs(t) ==
    { r \in [parent : 0..Len(t), name : Names, kind : Kinds, size : Sizes] :
        /\ r.parent # RootId => t[r.parent].kind = "folder"
        /\ \A i \in 1..Len(t) : t[i].parent = r.parent => t[i].name # r.name
        /\ r.kind = "folder" => r.size = 0 }

RECURSIVE Trees(_)
Trees(n) ==
    IF n = 0 THEN { <<>> }
    ELSE LET smaller == Trees(n - 1)
         IN  smaller \cup
             UNION { { Append(t, r) : r \in NodeRecs(t) } :
                     t \in { s \in smaller : Len(s) = n - 1 } }

IsFolder(t, n) == n = RootId \/ (n \in 1..Len(t) /\ t[n].kind = "folder")

RECURSIVE IdsFrom(_, _, _)
IdsFrom(t, p, i) ==
    IF i > Len(t) THEN <<>>
    ELSE (IF t[i].parent = p THEN <<i>> ELSE <<>>) \o IdsFrom(t, p, i + 1)

\* The children of p in the order the remote API returns them.
Children(t, p) == IdsFrom(t, p, 1)

\* GET .../{folder_id}/children: the first page of the children, and whether
\* the response carries an @odata.nextLink to the rest.
ChildrenPage(t, p) ==
    LET all == Children(t, p)
    IN  [value    |-> SubSeq(all, 1, IF Len(all) < PageSize THEN Len(all) ELSE PageSize),
         nextLink |-> Len(all) > PageSize]

\* Path addressing on the remote side: the path is walked from the root one
\* segment at a time; a segment that names no child (an empty one included)
\* resolves to nothing.
RECURSIVE Descend(_, _, _)
Descend(t, cur, segs) ==
    IF segs = <<>> THEN cur
    ELSE LET m == { i \in 1..Len(t) : t[i].parent = cur /\ t[i].name = Head(segs) }
         IN  IF m = {} THEN NotFound
             ELSE Descend(t, CHOOSE i \in m : TRUE, Tail(segs))

RemoteLookup(t, p) == IF p = <<>> THEN NotFound ELSE Descend(t, RootId, Split(p))

\* What of the text placed after "root:/" in the request URL reaches the
\* server as the path: requests.get() sends the URL's path and query only,
\* and a "#" starts the fragment (RFC 3986), which is never sent.
UrlPathSent(p) == UpTo(p, Hash)

\* ------------------------------------------------------------ the program
VARIABLES
    tree,       \* the remote drive
    pc,         \* position of the request in progress ("idle": none)
    req,        \* the request: [op, arg]
    item,       \* the handler's local `item` (the resolved drive item)
    stack,      \* fetch_all_items' recursion: frames [path, pending], top first
    all_items,  \* the listing built so far
    calls,      \* the remote calls issued by this request, oldest first
    resp        \* the HTTP response: [status, body]

vars == <<tree, pc, req, item, stack, all_items, calls, resp>>

\* The values of the path query parameters (folder, file_path): paths of one
\* or two names, as they are and with a leading slash.
PathArgs ==
    LET one == Names
        two == { x \o <<Slash>> \o y : x \in Names, y \in Names }
    IN  (one \cup two) \cup { <<Slash>> \o p : p \in one \cup two }

Queries == { <<"a">> }

\* The handler holds no item; no response yet.
NoItem == [id |-> NotFound, kind |-> "none", url |-> NoUrl]
NoResp == [status |-> 0]
NoReq == [op |-> "none", arg |-> <<>>]
\* The drive root as the start of a walk: folder_id = "root".
RootItem == [id |-> RootId, kind |-> "folder", url |-> NoUrl]

\* The join without lstrip("/").
CurrentPathNoStrip(path, name) == path \o <<Slash>> \o name

\* current_path = f"{path}/{item['name']}".lstrip("/")
CurrentPath(path, name) == LStrip(path \o <<Slash>> \o name)

\* Python's round(x, 2) of x = num / den, in hundredths: x is exact in binary
\* floating point here, and a tie goes to the even hundredth.
RoundHalfEven(num, den) ==
    LET q == num \div den
        r == num % den
    IN  IF 2 * r > den THEN q + 1
        ELSE IF 2 * r < den THEN q
        ELSE IF q % 2 = 0 THEN q ELSE q + 1

\* Rounding with ties away from zero.
SizeMbHalfUp(size) == (size * 100 * 2 + MiB) \div (2 * MiB)

\* round(item.get("size", 0) / (1024 * 1024), 2), in hundredths of a MB.
SizeMb(size) == RoundHalfEven(size * 100, MiB)

\* The entry appended for child n met under base path `path`.  mimeType and
\* downloadUrl are copied from the remote item unchanged and left out.
Entry(t, n, path) ==
    IF t[n].kind = "folder"
    THEN [type |-> "folder", name |-> t[n].name,
          path |-> CurrentPath(path, t[n].name), id |-> n]
    ELSE [type |-> "file", name |-> t[n].name,
          path |-> CurrentPath(path, t[n].name), size_mb |-> SizeMb(t[n].size),
          id |-> n]

\* Frames whose for-loop is exhausted return to their caller.
RECURSIVE Unwind(_)
Unwind(stk) ==
    IF stk # <<>> /\ Head(stk).pending = <<>> THEN Unwind(Tail(stk)) ELSE stk

\* A remote call and its answer: the endpoint, the item id or the path sent,
\* the status, and the download URL or the payload kind the answer carried.
Call(api, id, path, status, url) ==
    [api |-> api, id |-> id, path |-> path, status |-> status, url |-> url]

\* raise HTTPException(status_code = status)
Fail(status) ==
    /\ pc' = "done"
    /\ resp' = [status |-> status]

Init ==
    /\ tree \in Trees(MaxNodes)
    /\ pc = "idle"
    /\ req = NoReq
    /\ item = NoItem
    /\ stack = <<>>
    /\ all_items = <<>>
    /\ calls = <<>>
    /\ resp = NoResp

\* ---------------------------------------------------------- remote answers
\* The download URLs an answer for item n may carry: a folder or a package
\* has none; a file's is usually present and sometimes missing (app.py:196).
UrlsOf(t, n) == IF t[n].kind = "file" THEN Urls \cup {NoUrl} ELSE {NoUrl}

ItemOf(t, n, u) == [id |-> n, kind |-> t[n].kind, url |-> u]

\* get_item_by_path: the node the remote resolves the path to.  The leading
\* slashes are stripped, the rest is placed in the URL as it is.
GetItemByPath(t, path) == RemoteLookup(t, UrlPathSent(LStrip(path)))

\* The answers graph_get can get for a path lookup: a failure of the remote,
\* 404 for a path that resolves to nothing, or the item.
ResolveOutcomes(t, path) ==
    LET n == GetItemByPath(t, path)
    IN  { [status |-> s, item |-> NoItem] : s \in ErrStatuses } \cup
        ( IF n = NotFound THEN { [status |-> 404, item |-> NoItem] }
          ELSE { [status |-> 200, item |-> ItemOf(t, n, u)] : u \in UrlsOf(t, n) } )

\* The statuses graph_get sees: 200, or a status of 400 or more, on which it
\* raises HTTPException with that status.
GraphGetStatuses == {200} \cup ErrStatuses

\* The answers for GET .../items/{id}.
ItemOutcomes(t, n) ==
    { [status |-> s, item |-> NoItem] : s \in ErrStatuses } \cup
    { [status |-> 200, item |-> ItemOf(t, n, u)] : u \in UrlsOf(t, n) }

\* The hit lists the remote search may return: distinct items, in any order.
SearchHits(t) ==
    { h \in UNION { [1..k -> 1..Len(t)] : k \in 0..MaxHits } :
        \A i, j \in 1..Len(h) : i # j => h[i] # h[j] }

\* A refetch whatever the first answer held.
NeedsRefetchAlways(url) == TRUE

\* `if not download_url`
NeedsRefetch(url) == url = NoUrl

\* `if "file" in item and "folder" not in item`
IsFileNotFolder(it) == it.kind = "file"

\* ------------------------------------------------------------- list_files
ListDone(items) ==
    /\ pc' = "done"
    /\ resp' = [status |-> 200, count |-> Len(items), items |-> items]

\* app.py:123-126: the token, then the walk from the root or the resolution.
ListFiles(folder) ==
    /\ pc = "idle"
    /\ req' = [op |-> "list", arg |-> folder]
    /\ \E tokenOk \in BOOLEAN :
        IF ~tokenOk THEN Fail(500) /\ item' = item
        ELSE IF folder = <<>>
        THEN pc' = "walk_start" /\ item' = RootItem /\ resp' = resp
        ELSE pc' = "list_resolve" /\ item' = item /\ resp' = resp
    /\ UNCHANGED <<tree, stack, all_items, calls>>

\* app.py:129-136.
ListResolve ==
    /\ pc = "list_resolve"
    /\ \E o \in ResolveOutcomes(tree, req.arg) :
        /\ calls' = Append(calls, Call("path", o.item.id, req.arg, o.status, o.item.url))
        /\ IF o.status >= 400 THEN Fail(404) /\ item' = item
           ELSE IF IsFileNotFolder(o.item) THEN Fail(400) /\ item' = o.item
           ELSE pc' = "walk_start" /\ item' = o.item /\ resp' = resp
    /\ UNCHANGED <<tree, req, stack, all_items>>

\* fetch_all_items, the outermost call (app.py:73-77): one children call for
\* the start folder; the loop runs over the "value" of that one answer.
FetchAllItems ==
    /\ pc = "walk_start"
    /\ \E st \in GraphGetStatuses :
        /\ calls' = Append(calls, Call("children", item.id, <<>>, st, NoUrl))
        /\ IF st >= 400 THEN Fail(st) /\ stack' = stack
           ELSE LET stk == Unwind(<<[path    |-> req.arg,
                                     pending |-> ChildrenPage(tree, item.id).value]>>)
                IN  /\ stack' = stk
                    /\ IF stk = <<>> THEN ListDone(all_items)
                       ELSE pc' = "walk" /\ resp' = resp
    /\ UNCHANGED <<tree, req, item, all_items>>

\* One iteration of the for-loop (app.py:77-97): the entry is appended, and
\* for a folder the recursive call issues its children call.
FetchAllItemsLoop ==
    /\ pc = "walk"
    /\ LET top  == Head(stack)
           n    == Head(top.pending)
           e    == Entry(tree, n, top.path)
           rest == <<[top EXCEPT !.pending = Tail(@)]>> \o Tail(stack)
       IN  /\ all_items' = Append(all_items, e)
           /\ IF e.type = "folder"
              THEN \E st \in GraphGetStatuses :
                    /\ calls' = Append(calls, Call("children", n, <<>>, st, NoUrl))
                    /\ IF st >= 400 THEN Fail(st) /\ stack' = stack
                       ELSE LET stk == Unwind(<<[path    |-> e.path,
                                                 pending |-> ChildrenPage(tree, n).value]>>
                                              \o rest)
                            IN  /\ stack' = stk
                                /\ IF stk = <<>> THEN ListDone(all_items')
                                   ELSE pc' = "walk" /\ resp' = resp
              ELSE /\ calls' = calls
                   /\ stack' = Unwind(rest)
                   /\ IF stack' = <<>> THEN ListDone(all_items')
                      ELSE pc' = "walk" /\ resp' = resp
    /\ UNCHANGED <<tree, req, item>>

\* --------------------------------------------------------------- metadata
\* app.py:145-147, 163-166.
Metadata(file_path) ==
    /\ pc = "idle"
    /\ req' = [op |-> "metadata", arg |-> file_path]
    /\ \E tokenOk \in BOOLEAN :
        IF ~tokenOk THEN Fail(500)
        ELSE /\ pc' = IF file_path # <<>> THEN "md_resolve" ELSE "md_search"
             /\ resp' = resp
    /\ UNCHANGED <<tree, item, stack, all_items, calls>>

\* app.py:149-153; a failure of graph_get is re-raised as it is (app.py:181).
MetadataResolve ==
    /\ pc = "md_resolve"
    /\ \E o \in ResolveOutcomes(tree, req.arg) :
        /\ calls' = Append(calls, Call("path", o.item.id, req.arg, o.status, o.item.url))
        /\ item' = o.item
        /\ IF o.status >= 400 THEN Fail(o.status)
           ELSE IF o.item.url = NoUrl THEN Fail(404)
           ELSE pc' = "md_content" /\ resp' = resp
    /\ UNCHANGED <<tree, req, stack, all_items>>

\* app.py:166-171: the search, and the id of its first hit.
MetadataSearch ==
    /\ pc = "md_search"
    /\ \E st \in GraphGetStatuses, hits \in SearchHits(tree) :
        /\ calls' = Append(calls, Call("search", NotFound, <<>>, st, NoUrl))
        /\ IF st >= 400 THEN Fail(st) /\ item' = item
           ELSE IF hits = <<>> THEN Fail(404) /\ item' = item
           ELSE /\ pc' = "md_item"
                /\ item' = ItemOf(tree, hits[1], NoUrl)
                /\ resp' = resp
    /\ UNCHANGED <<tree, req, stack, all_items>>

\* app.py:173-176.
MetadataItem ==
    /\ pc = "md_item"
    /\ \E o \in ItemOutcomes(tree, item.id) :
        /\ calls' = Append(calls, Call("item", item.id, <<>>, o.status, o.item.url))
        /\ IF o.status >= 400 THEN Fail(o.status) /\ item' = item
           ELSE IF o.item.url = NoUrl THEN Fail(404) /\ item' = o.item
           ELSE pc' = "md_content" /\ item' = o.item /\ resp' = resp
    /\ UNCHANGED <<tree, req, stack, all_items>>

\* app.py:155-162 and 177-180: the content is fetched from the download URL,
\* decoded and parsed.  raise_for_status() and decode() raise exceptions that
\* are no HTTPException; json.JSONDecodeError is caught only where file_path
\* was given (app.py:161).  Everything else ends in the handler of app.py:183.
MetadataContent ==
    /\ pc = "md_content"
    /\ \E st \in {200} \cup ErrStatuses, payload \in Payloads :
        /\ calls' = Append(calls, Call("content", item.id, <<>>, st,
                                       IF st = 200 THEN payload ELSE NoUrl))
        /\ IF st >= 400 THEN Fail(500)
           ELSE IF payload = "notutf8" THEN Fail(500)
           ELSE IF payload = "badjson"
                THEN (IF req.arg # <<>> THEN Fail(400) ELSE Fail(500))
           ELSE /\ pc' = "done"
                /\ resp' = [status |-> 200, metadata |-> payload]
    /\ UNCHANGED <<tree, req, item, stack, all_items>>

\* --------------------------------------------------------------- download
\* app.py:192.
Download(file_path) ==
    /\ pc = "idle"
    /\ req' = [op |-> "download", arg |-> file_path]
    /\ \E tokenOk \in BOOLEAN :
        IF ~tokenOk THEN Fail(500) ELSE pc' = "dl_resolve" /\ resp' = resp
    /\ UNCHANGED <<tree, item, stack, all_items, calls>>

DownloadDone(url) ==
    /\ pc' = "done"
    /\ resp' = [status |-> 200, download_url |-> url]

\* app.py:194-202.
DownloadResolve ==
    /\ pc = "dl_resolve"
    /\ \E o \in ResolveOutcomes(tree, req.arg) :
        /\ calls' = Append(calls, Call("path", o.item.id, req.arg, o.status, o.item.url))
        /\ item' = o.item
        /\ IF o.status >= 400 THEN Fail(o.status)
           ELSE IF ~NeedsRefetch(o.item.url) THEN DownloadDone(o.item.url)
           ELSE IF o.item.id = NotFound THEN Fail(404)
           ELSE pc' = "dl_refetch" /\ resp' = resp
    /\ UNCHANGED <<tree, req, stack, all_items>>

\* app.py:203-207.
DownloadRefetch ==
    /\ pc = "dl_refetch"
    /\ \E o \in ItemOutcomes(tree, item.id) :
        /\ calls' = Append(calls, Call("item", item.id, <<>>, o.status, o.item.url))
        /\ IF o.status >= 400 THEN Fail(o.status)
           ELSE IF o.item.url = NoUrl THEN Fail(404)
           ELSE DownloadDone(o.item.url)
    /\ UNCHANGED <<tree, req, item, stack, all_items>>

\* ----------------------------------------------------------------- search
\* app.py:216.
Search(q) ==
    /\ pc = "idle"
    /\ req' = [op |-> "search", arg |-> q]
    /\ \E tokenOk \in BOOLEAN :
        IF ~tokenOk THEN Fail(500) ELSE pc' = "search_call" /\ resp' = resp
    /\ UNCHANGED <<tree, item, stack, all_items, calls>>

\* The reduced projection of a hit (app.py:224-230).
SearchResult(t, n) ==
    [id |-> n, name |-> t[n].name,
     type |-> IF t[n].kind = "folder" THEN "folder" ELSE "file"]

\* app.py:217-231.
SearchCall ==
    /\ pc = "search_call"
    /\ \E st \in GraphGetStatuses, hits \in SearchHits(tree) :
        /\ calls' = Append(calls, Call("search", NotFound, req.arg, st, NoUrl))
        /\ IF st >= 400 THEN Fail(st)
           ELSE /\ pc' = "done"
                /\ resp' = [status  |-> 200, count |-> Len(hits),
                            results |-> [i \in 1..Len(hits) |-> SearchResult(tree, hits[i])]]
    /\ UNCHANGED <<tree, req, item, stack, all_items>>

\* ------------------------------------------------------------------ reply
\* The response is sent; nothing of the request is kept (no state is shared
\* between requests).
Reply ==
    /\ pc = "done"
    /\ pc' = "idle"
    /\ req' = NoReq
    /\ item' = NoItem
    /\ stack' = <<>>
    /\ all_items' = <<>>
    /\ calls' = <<>>
    /\ resp' = NoResp
    /\ UNCHANGED tree

Next ==
    \/ \E folder \in PathArgs \cup {<<>>} : ListFiles(folder)
    \/ ListResolve
    \/ FetchAllItems
    \/ FetchAllItemsLoop
    \/ \E file_path \in PathArgs \cup {<<>>} : Metadata(file_path)
    \/ MetadataResolve
    \/ MetadataSearch
    \/ MetadataItem
    \/ MetadataContent
    \/ \E file_path \in PathArgs : Download(file_path)
    \/ DownloadResolve
    \/ DownloadRefetch
    \/ \E q \in Queries : Search(q)
    \/ SearchCall
    \/ Reply

Spec == Init /\ [][Next]_vars

\* ------------------------------------------------------------- properties
ListReturned == pc = "done" /\ req.op = "list" /\ resp.status = 200

\* The ids of a listing, in order.
IdsOf(items) == [i \in 1..Len(items) |-> items[i].id]

\* The pre-order traversal of the drive below p, siblings in API order.
RECURSIVE PreOrderSeq(_, _)
PreOrderSeq(t, kids) ==
    IF kids = <<>> THEN <<>>
    ELSE <<Head(kids)>> \o PreOrderSeq(t, Children(t, Head(kids)))
                        \o PreOrderSeq(t, Tail(kids))

PreOrder(t, p) == PreOrderSeq(t, Children(t, p))

\* n lies below p in the drive.
RECURSIVE Below(_, _, _)
Below(t, n, p) ==
    /\ n # RootId
    /\ (t[n].parent = p \/ Below(t, t[n].parent, p))

ChildrenCalls(f) == { i \in 1..Len(calls) : calls[i].api = "children" /\ calls[i].id = f }

\* C1: the listing a walk returns is the pre-order traversal of the drive
\* below the start folder: one entry per item below it, each folder before
\* its descendants and directly followed by them, siblings in API order.
C1_ListingIsPreOrder ==
    ListReturned => IdsOf(resp.items) = PreOrder(tree, item.id)

\* p is full without its leading slashes.
IsStripOf(full, p) ==
    /\ p = <<>> \/ Head(p) # Slash
    /\ \E k \in 0..Len(full) :
        /\ SubSeq(full, k + 1, Len(full)) = p
        /\ \A i \in 1..k : full[i] = Slash

\* The entry of item n in the listing built so far.
EntryOf(n) == all_items[CHOOSE i \in 1..Len(all_items) : all_items[i].id = n]
Listed(n) == \E i \in 1..Len(all_items) : all_items[i].id = n

\* C2 as stated: no emitted path starts with a slash, an item directly under
\* the start folder has path basePath + "/" + name (its name for an empty
\* base path), and any other item has its parent's path + "/" + its name.
C2_PathIsBasePlusName ==
    req.op = "list" =>
        \A i \in 1..Len(all_items) :
            LET e == all_items[i]
                p == tree[e.id].parent
            IN  /\ Head(e.path) # Slash
                /\ IF p = item.id
                   THEN e.path = IF req.arg = <<>> THEN e.name
                                  ELSE req.arg \o <<Slash>> \o e.name
                   ELSE Listed(p) /\ e.path = EntryOf(p).path \o <<Slash>> \o e.name

\* C2 (amended): no emitted path starts with a slash, an item directly under
\* the start folder has path basePath + "/" + name with the leading slashes
\* removed, and any other item has its parent's path + "/" + its name.
C2_PathIsStrippedJoin ==
    req.op = "list" =>
        \A i \in 1..Len(all_items) :
            LET e == all_items[i]
                p == tree[e.id].parent
            IN  /\ e.path # <<>> /\ Head(e.path) # Slash
                /\ IF p = item.id
                   THEN IsStripOf(req.arg \o <<Slash>> \o e.name, e.path)
                   ELSE Listed(p) /\ e.path = EntryOf(p).path \o <<Slash>> \o e.name

\* A listing of a folder given with a leading slash that holds an item and
\* an item below that one.
C2_Witness ==
    /\ ListReturned
    /\ req.arg # <<>> /\ Head(req.arg) = Slash
    /\ \E i, j \in 1..Len(all_items) :
        /\ tree[all_items[i].id].parent = item.id
        /\ tree[all_items[j].id].parent = all_items[i].id

\* C3: resolving the path of any item of a returned listing with
\* get_item_by_path gives the item with the emitted id.
C3_ListedPathResolvesToItem ==
    ListReturned =>
        \A i \in 1..Len(resp.items) :
            GetItemByPath(tree, resp.items[i].path) = resp.items[i].id

\* C4: once the folder argument of list has resolved to an item that is not
\* a folder, the request has ended with status 400 and no children call was
\* issued.
C4_NonFolderIsBadRequest ==
    ( /\ req.op = "list" /\ req.arg # <<>>
      /\ calls # <<>> /\ calls[1].api = "path" /\ calls[1].status = 200
      /\ tree[calls[1].id].kind # "folder" )
    => ( pc = "done" /\ resp.status = 400 /\ Len(calls) = 1 )

ItemCalls == { i \in 1..Len(calls) : calls[i].api = "item" }

\* C5: download issues at most one by-id refetch; when the path lookup
\* carries a download URL the request succeeds with it and no refetch is
\* issued; when it carries none the item is refetched once by its id, and
\* the request succeeds with the refetched URL or, if the refetched item has
\* none, fails with 404.
C5_DownloadRefetchesOnce ==
    req.op = "download" =>
        /\ Cardinality(ItemCalls) <= 1
        /\ ( pc = "done" /\ calls # <<>> /\ calls[1].status = 200 ) =>
             IF calls[1].url # NoUrl
             THEN /\ Len(calls) = 1
                  /\ resp.status = 200 /\ resp.download_url = calls[1].url
             ELSE /\ Len(calls) = 2
                  /\ calls[2].api = "item" /\ calls[2].id = calls[1].id
                  /\ calls[2].status = 200 =>
                       IF calls[2].url # NoUrl
                       THEN resp.status = 200 /\ resp.download_url = calls[2].url
                       ELSE resp.status = 404

\* A download that succeeded through the refetch.
C5_Witness ==
    /\ req.op = "download" /\ pc = "done" /\ resp.status = 200
    /\ Len(calls) = 2 /\ calls[1].url = NoUrl /\ calls[2].url # NoUrl

\* C6: a returned listing holds every item of the drive below the start
\* folder, whatever the number of pages the children of a folder come in.
C6_ListingHoldsEveryItem ==
    ListReturned =>
        \A n \in 1..Len(tree) :
            Below(tree, n, item.id) => \E i \in 1..Len(resp.items) : resp.items[i].id = n

C8_RemoteStatusPassedThrough ==
    ( /\ pc = "done" /\ calls # <<>>
      /\ calls[Len(calls)].api # "content"
      /\ calls[Len(calls)].status >= 400 )
    => resp.status = calls[Len(calls)].status

\* C9: a metadata request whose fetched content cannot be decoded or parsed
\* answers 400.
C9_UnparseableIsBadRequest ==
    ( /\ pc = "done" /\ req.op = "metadata" /\ calls # <<>>
      /\ calls[Len(calls)].api = "content"
      /\ calls[Len(calls)].status = 200
      /\ calls[Len(calls)].url \in {"badjson", "notutf8"} )
    => resp.status = 400

\* C10: a walk that returned has issued exactly one children call for the
\* start folder and for every folder below it, none for any other item, and
\* a folder without children has exactly one entry.
C10_OneChildrenCallPerFolder ==
    ( ListReturned /\ IsFolder(tree, item.id) ) =>
        /\ Cardinality(ChildrenCalls(item.id)) = 1
        /\ \A n \in 1..Len(tree) :
            /\ n # item.id =>
                 Cardinality(ChildrenCalls(n)) =
                   IF Below(tree, n, item.id) /\ tree[n].kind = "folder" THEN 1 ELSE 0
            /\ ( Below(tree, n, item.id) /\ tree[n].kind = "folder"
                 /\ Children(tree, n) = <<>> )
               => Cardinality({ i \in 1..Len(resp.items) : resp.items[i].id = n }) = 1

====
